---- MODULE Spec2Model ----
(***************************************************************************)
(* DanData Task Manager: the scheduler-driven job catalogue                *)
(* (task_manager.py), the manual-run HTTP handler (task_web_interface.py)  *)
(* and the 60-second supervisory loop, as one state machine.               *)
(*                                                                         *)
(* Time is counted in whole minutes since Monday 00:00.  Everything runs   *)
(* on one asyncio event loop, so a coroutine is one atomic step from one   *)
(* suspension point to the next.  Only _database_cleanup_task suspends     *)
(* (asyncio.sleep); the other four actions, _send_alert and the blocking   *)
(* requests.get never yield to the loop.                                   *)
(*                                                                         *)
(* Four specifications share the actions: Spec (requests and executions   *)
(* observed), LongRun (twelve minutes, unobserved), Lifecycle (further     *)
(* start() calls and the interrupt) and Calendar (the scheduler's run      *)
(* times over two weeks).                                                  *)
(***************************************************************************)
EXTENDS Integers, Sequences, FiniteSets, Bags, TLC

\* ------------------------------------------------------------------ bounds
\* Minutes of operation explored after start(), with every request and
\* execution observed (Spec) and over the long run (LongRun).
MaxElapsed == 2
MaxLongRun == 12
\* Manual runs that may be in flight together.
MaxManual == 2
\* POST /run requests observed in one behaviour of Spec.
MaxRequests == 2
\* Calls of start() in one behaviour of Lifecycle, and its minutes.
MaxStarts == 2
MaxLifecycle == 2
\* Days of scheduling followed in Calendar.
MaxCalendarDays == 14

\* ------------------------------------------------------ program constants
IntervalMinutes == 5
StalenessMinutes == 10
LoopSleepMinutes == 1
max_instances == 1
CostThresholdCents == 2000
SupabaseCostCents == 1550
VercelCostCents == 825
ErrorRatePermille == 2
ErrorRateLimitPermille == 10
CleanupActions == 4

MinutesPerDay == 24 * 60
MinutesPerWeek == 7 * MinutesPerDay
NoTime == 0 - 1
NoError == "none"
SinkError == "alert delivery failed"

\* Instants at which start() is called: Tuesday 01:59 (db_cleanup comes due
\* a minute later) and Sunday 02:52 (backup_verify comes due after 8).
StartTimes == { 1 * MinutesPerDay + 1 * 60 + 59 }
LongRunStartTimes == { 1 * MinutesPerDay + 1 * 60 + 59, 6 * MinutesPerDay + 2 * 60 + 52 }
CalendarStartTimes == { 1 * MinutesPerDay + 1 * 60 + 59 }

\* ------------------------------------------------------------ job catalogue
\* The ids given to scheduler.add_job, in the order of the calls.
JobIds == << "health_check", "db_cleanup", "backup_verify",
             "performance_analytics", "cost_monitoring" >>

JobIdSet == { JobIds[i] : i \in 1..Len(JobIds) }

\* The coroutine each job id is bound to.
JobFunc(id) ==
  CASE id = "health_check" -> "_health_check_task"
    [] id = "db_cleanup" -> "_database_cleanup_task"
    [] id = "backup_verify" -> "_backup_verification_task"
    [] id = "performance_analytics" -> "_performance_analytics_task"
    [] id = "cost_monitoring" -> "_cost_monitoring_task"

TaskFuncs == { JobFunc(id) : id \in JobIdSet }

\* The job id a coroutine is registered under.
JobOfFunc(f) == CHOOSE id \in JobIdSet : JobFunc(id) = f

\* run_task's own table of names.
TaskMethodNames == { "health_check", "database_cleanup", "backup_verification",
                     "performance_analytics", "cost_monitoring" }

TaskMethods(name) ==
  CASE name = "health_check" -> "_health_check_task"
    [] name = "database_cleanup" -> "_database_cleanup_task"
    [] name = "backup_verification" -> "_backup_verification_task"
    [] name = "performance_analytics" -> "_performance_analytics_task"
    [] name = "cost_monitoring" -> "_cost_monitoring_task"

\* The alert type each action's except clause passes to _send_alert.
FailedAlertType(f) ==
  CASE f = "_health_check_task" -> "health_check_failed"
    [] f = "_database_cleanup_task" -> "db_cleanup_failed"
    [] f = "_backup_verification_task" -> "backup_verification_failed"
    [] f = "_performance_analytics_task" -> "performance_analytics_failed"
    [] f = "_cost_monitoring_task" -> "cost_monitoring_failed"

\* "<id>_failed" for a registered job id.
FailedTag(id) ==
  CASE id = "health_check" -> "health_check_failed"
    [] id = "db_cleanup" -> "db_cleanup_failed"
    [] id = "backup_verify" -> "backup_verify_failed"
    [] id = "performance_analytics" -> "performance_analytics_failed"
    [] id = "cost_monitoring" -> "cost_monitoring_failed"

FailedTags == { FailedTag(id) : id \in JobIdSet } \cup { FailedAlertType(f) : f \in TaskFuncs }

\* Coroutines that reach a real suspension point (asyncio.sleep).
Suspends(f) == f = "_database_cleanup_task"

\* ------------------------------------------------------------------ triggers
DayOfWeek(t) == (t % MinutesPerWeek) \div MinutesPerDay
HourOf(t) == (t % MinutesPerDay) \div 60
MinuteOf(t) == t % 60

\* backup_verify without its day_of_week field.
CronMatchesDaily(id, t) ==
  CASE id = "db_cleanup" -> HourOf(t) = 2 /\ MinuteOf(t) = 0
    [] id = "backup_verify" -> HourOf(t) = 3 /\ MinuteOf(t) = 0
    [] id = "performance_analytics" -> HourOf(t) = 1 /\ MinuteOf(t) = 0
    [] id = "cost_monitoring" -> HourOf(t) = 9 /\ MinuteOf(t) = 0
    [] OTHER -> FALSE

\* CronTrigger fields of a job: every given field must match.
CronMatches(id, t) ==
  CASE id = "db_cleanup" -> HourOf(t) = 2 /\ MinuteOf(t) = 0
    [] id = "backup_verify" -> DayOfWeek(t) = 6 /\ HourOf(t) = 3 /\ MinuteOf(t) = 0
    [] id = "performance_analytics" -> HourOf(t) = 1 /\ MinuteOf(t) = 0
    [] id = "cost_monitoring" -> HourOf(t) = 9 /\ MinuteOf(t) = 0
    [] OTHER -> FALSE

\* The first matching instant strictly after t.  Every trigger here pins
\* minute 0, so the candidates are the full hours of the week after t.
NextCron(id, t) ==
  LET c == { m \in { (t \div 60 + k) * 60 : k \in 1..(7 * 24) } : CronMatches(id, m) }
  IN CHOOSE m \in c : \A k \in c : m <= k

\* trigger.get_next_fire_time(previous, now): the interval trigger counts on
\* from its previous fire time, or from its creation when it never fired.
NextFireTime(id, previous, t) ==
  IF id = "health_check"
    THEN (IF previous = NoTime THEN t ELSE previous) + IntervalMinutes
    ELSE NextCron(id, IF previous = NoTime THEN t ELSE previous)

\* ------------------------------------------------------------------- alerts
\* Python's str comparison, on the code points of the two strings.
RECURSIVE StrGreater(_, _)
StrGreater(a, b) ==
  IF a = << >> THEN FALSE
  ELSE IF b = << >> THEN TRUE
  ELSE IF Head(a) # Head(b) THEN Head(a) > Head(b)
  ELSE StrGreater(Tail(a), Tail(b))

\* "450ms" (_get_api_metrics) and "1000ms" (_analyze_performance_trends).
P95Reported == << 52, 53, 48, 109, 115 >>
P95Limit == << 49, 48, 48, 48, 109, 115 >>

\* _analyze_performance_trends: the issues it collects.
PerformanceIssues ==
  (IF StrGreater(P95Reported, P95Limit) THEN << "API response times degraded" >> ELSE << >>)
  \o (IF ErrorRatePermille > ErrorRateLimitPermille THEN << "Error rate elevated" >> ELSE << >>)

\* "; ".join(issues)
JoinIssues(issues) ==
  IF Len(issues) = 1 THEN issues[1]
  ELSE "API response times degraded; Error rate elevated"

TotalCostCents == SupabaseCostCents + VercelCostCents

\* _send_alert(alert_type, message, data) with the sink (stdout) accepting
\* the prints or not.  The type and message are printed before json.dumps,
\* so data that cannot be serialized raises after the alert is out.
SendAlert(type, message, data, sinkOk) ==
  [ delivered |-> sinkOk,
    raised |-> ~sinkOk \/ data = "unserializable",
    error |-> IF ~sinkOk THEN SinkError ELSE "not JSON serializable",
    alert |-> [ type |-> type, message |-> message ] ]

\* What a try body leaves behind: the error it raised (NoError when it ran
\* through), whether the error came from the action's own work or from a
\* threshold alert's delivery, and the alerts delivered so far.
BodyOk(alerts) == [ error |-> NoError, cause |-> "none", alerts |-> alerts ]
BodyRaised(e, cause, alerts) == [ error |-> e, cause |-> cause, alerts |-> alerts ]

\* A threshold alert requested inside a try body.
ThresholdAlert(type, message, sinkOk) ==
  LET r == SendAlert(type, message, "json", sinkOk)
  IN IF r.raised
       THEN BodyRaised(r.error, "alert", IF r.delivered THEN << r.alert >> ELSE << >>)
       ELSE BodyOk(<< r.alert >>)

\* The outcomes of the probe requests.get(.../health): an HTTP code (0 when
\* the request itself raises) and the "status" of the JSON body ("invalid"
\* for a body response.json() cannot parse).
ProbeOutcomes ==
  { [ code |-> 200, status |-> s ] :
      s \in { "healthy", "degraded", "unhealthy", "absent", "invalid" } }
  \cup { [ code |-> 500, status |-> "absent" ], [ code |-> 0, status |-> "absent" ] }

\* The probe got as far as lines 145-146: HTTP 200 with a body that parses.
ProbeRead(probe) == probe.code = 200 /\ probe.status # "invalid"

\* health_data.get('status', 'unknown')
ReportedStatus(probe) == IF probe.status = "absent" THEN "unknown" ELSE probe.status

HealthMessage(hs) ==
  IF hs = "degraded" THEN "System health is degraded" ELSE "System health is unhealthy"

\* The try body of _health_check_task.
HealthBody(probe, sinkOk) ==
  IF probe.code = 200
    THEN IF ~ProbeRead(probe)
           THEN BodyRaised("Expecting value: line 1 column 1 (char 0)", "action", << >>)
         ELSE IF ReportedStatus(probe) \in { "degraded", "unhealthy" }
           THEN ThresholdAlert("health_degraded", HealthMessage(ReportedStatus(probe)), sinkOk)
           ELSE BodyOk(<< >>)
    ELSE IF probe.code = 0
      THEN BodyRaised("Connection timed out", "action", << >>)
      ELSE BodyRaised("Health check failed: HTTP 500", "action", << >>)

\* The try bodies of the simulated actions; fails injects an error raised by
\* the work the body stands in for.
SimulatedBody(fails) ==
  IF fails THEN BodyRaised("simulated step failed", "action", << >>) ELSE BodyOk(<< >>)

\* The try body of _performance_analytics_task.
PerformanceBody(sinkOk) ==
  IF PerformanceIssues # << >>
    THEN ThresholdAlert("performance_degradation", JoinIssues(PerformanceIssues), sinkOk)
    ELSE BodyOk(<< >>)

\* The try body of _cost_monitoring_task.
CostBody(sinkOk) ==
  IF TotalCostCents > CostThresholdCents
    THEN ThresholdAlert("cost_threshold_warning", "Monthly cost approaching threshold: $23.75", sinkOk)
    ELSE BodyOk(<< >>)

\* try body of coroutine f under the environment's choices env.
TryBody(f, env) ==
  CASE f = "_health_check_task" -> HealthBody(env.probe, env.sink1)
    [] f = "_database_cleanup_task" -> SimulatedBody(env.fails)
    [] f = "_backup_verification_task" -> SimulatedBody(env.fails)
    [] f = "_performance_analytics_task" -> PerformanceBody(env.sink1)
    [] f = "_cost_monitoring_task" -> CostBody(env.sink1)

\* The except clause: one _send_alert('<...>_failed', str(e)) with no data.
\* The record is what one finished execution of f amounts to.
Outcome(f, reported, body, sinkOk) ==
  IF body.error = NoError
    THEN [ func |-> f, reported |-> reported, error |-> NoError, cause |-> "none",
           alerts |-> body.alerts, returned |-> TRUE, sendRaised |-> FALSE ]
    ELSE LET r == SendAlert(FailedAlertType(f), body.error, "none", sinkOk)
         IN [ func |-> f, reported |-> reported, error |-> body.error, cause |-> body.cause,
              alerts |-> body.alerts \o (IF r.delivered THEN << r.alert >> ELSE << >>),
              returned |-> ~r.raised,
              sendRaised |-> (body.cause = "alert") \/ r.raised ]

\* The environment's choices for one execution.
Envs(f) ==
  { [ probe |-> p, sink1 |-> s1, sink2 |-> s2, fails |-> fl ] :
      p \in (IF f = "_health_check_task" THEN ProbeOutcomes
             ELSE { [ code |-> 200, status |-> "absent" ] }),
      s1 \in (IF f \in { "_database_cleanup_task", "_backup_verification_task" }
              THEN { TRUE } ELSE BOOLEAN),
      s2 \in BOOLEAN,
      fl \in (IF f \in { "_database_cleanup_task", "_backup_verification_task" }
              THEN BOOLEAN ELSE { FALSE }) }

\* The environment in which nothing fails: the probe answers 200 "healthy",
\* stdout takes every print and no simulated step raises.
QuietEnv == [ probe |-> [ code |-> 200, status |-> "healthy" ], sink1 |-> TRUE, sink2 |-> TRUE,
              fails |-> FALSE ]

\* The status a probe put into health_status at line 145, if it got there.
Reported(f, env) ==
  IF f = "_health_check_task" /\ ProbeRead(env.probe) THEN ReportedStatus(env.probe) ELSE "none"

RunFunc(f, env) == Outcome(f, Reported(f, env), TryBody(f, env), env.sink2)

\* health_status after one execution of _health_check_task.
HealthStatusAfter(old, probe, out) ==
  IF out.error # NoError THEN "unhealthy"
  ELSE IF ProbeRead(probe) THEN ReportedStatus(probe) ELSE old

\* last_health_check after one execution of _health_check_task started at t.
LastCheckAfter(old, probe, t) == IF ProbeRead(probe) THEN t ELSE old

\* A slip in _run_health_check's comparison: overdue already at ten minutes.
HealthCheckOverdueAtLimit(last, t) == last = NoTime \/ t - last >= StalenessMinutes

\* _run_health_check's test: no check yet, or the last one more than
\* timedelta(minutes=10) ago.
HealthCheckOverdue(last, t) == last = NoTime \/ t - last > StalenessMinutes

\* -------------------------------------------------------------------- state
VARIABLES
  now,                \* the clock, minutes since Monday 00:00
  elapsed,            \* minutes since start()
  running,            \* scheduler.running
  jobs,               \* what scheduler.get_jobs() returns, as job ids
  nextRun,            \* job id -> next_run_time (NoTime before start)
  lastFired,          \* job id -> the run time the scheduler submitted last
  instances,          \* job id -> the executor's count of submitted runs
  runs,               \* the executions in flight, a bag of [func, origin, pc]
  tasks,              \* self.tasks, the TaskResult records
  health_status,
  last_health_check,
  loop,               \* the supervisory loop of start()
  monitor,            \* what the last supervisory iteration did
  life,               \* start() calls, and what the end of the process did
  lastRun,            \* observer: the execution that finished last
  lastReq,            \* observer: the POST /run/{task_name} that arrived last
  lastResp,           \* observer: the response sent last
  requests            \* observer: POST /run requests so far

prog == << now, elapsed, running, jobs, nextRun, lastFired, instances, runs, tasks,
           health_status, last_health_check, loop, monitor, life >>

obs == << lastRun, lastReq, lastResp, requests >>

vars == << now, elapsed, running, jobs, nextRun, lastFired, instances, runs, tasks,
           health_status, last_health_check, loop, monitor, life,
           lastRun, lastReq, lastResp, requests >>

\* Names a client may put in POST /run/{task_name}.
RequestNames == TaskMethodNames \cup JobIdSet \cup { "no_such_task" }

NoRun == [ func |-> "none", reported |-> "none", error |-> NoError, cause |-> "none", alerts |-> << >>,
           returned |-> TRUE, sendRaised |-> FALSE ]

\* The state DanDataTaskManager.__init__ leaves, at one of the instants in starts.
InitAt(starts) ==
  /\ now \in starts
  /\ elapsed = 0
  /\ running = FALSE
  /\ jobs = << >>
  /\ nextRun = [ id \in JobIdSet |-> NoTime ]
  /\ lastFired = [ id \in JobIdSet |-> NoTime ]
  /\ instances = [ id \in JobIdSet |-> 0 ]
  /\ runs = EmptyBag
  /\ tasks = { }
  /\ health_status = "unknown"
  /\ last_health_check = NoTime
  /\ loop = [ pc |-> "idle", wake |-> NoTime ]
  /\ monitor = [ forced |-> 0, hadCheck |-> FALSE ]
  /\ life = [ starts |-> 0, conflict |-> FALSE, shutdowns |-> 0, cleanups |-> 0, cancelled |-> 0 ]
  /\ lastRun = NoRun
  /\ lastReq = [ name |-> "none", busy |-> FALSE, started |-> FALSE ]
  /\ lastResp = [ name |-> "none", code |-> 0 ]
  /\ requests = 0

Init == InitAt(StartTimes)

\* ---------------------------------------------------------------- job store
\* MemoryJobStore keeps its jobs ordered by (next_run_time, id).
IdRank(id) ==
  CASE id = "backup_verify" -> 1
    [] id = "cost_monitoring" -> 2
    [] id = "db_cleanup" -> 3
    [] id = "health_check" -> 4
    [] id = "performance_analytics" -> 5

StoreBefore(nr, a, b) ==
  nr[a] < nr[b] \/ (nr[a] = nr[b] /\ IdRank(a) < IdRank(b))

\* The store's order of the job ids in S under next run times nr.
RECURSIVE StoreOrder(_, _)
StoreOrder(S, nr) ==
  IF S = { } THEN << >>
  ELSE LET first == CHOOSE a \in S : \A b \in S \ { a } : StoreBefore(nr, a, b)
       IN << first >> \o StoreOrder(S \ { first }, nr)

\* scheduler.get_jobs(): the pending jobs in the order they were added while
\* the scheduler is stopped, the store's order once it runs.
GetJobs(isRunning, pending, nr) ==
  IF isRunning THEN StoreOrder({ pending[i] : i \in 1..Len(pending) }, nr) ELSE pending

\* list_scheduled_jobs(): one entry per job of get_jobs(), in its order.
ListScheduledJobs == [ i \in 1..Len(jobs) |-> jobs[i] ]

\* A store that takes an id it already holds once more.
AddJobTwice(store, id) == [ raised |-> FALSE, jobs |-> Append(store, id) ]

\* scheduler.add_job(..., id=id), without replace_existing, on a running
\* scheduler: the store raises ConflictingIdError for an id it holds.
AddJob(store, id) ==
  IF \E i \in 1..Len(store) : store[i] = id
    THEN [ raised |-> TRUE, jobs |-> store ]
    ELSE [ raised |-> FALSE, jobs |-> Append(store, id) ]

\* _setup_scheduled_tasks on a running scheduler: the add_job calls in
\* their order, up to the first that raises.
RECURSIVE SetupScheduledTasks(_, _)
SetupScheduledTasks(store, ids) ==
  IF ids = << >> THEN [ raised |-> FALSE, jobs |-> store ]
  ELSE LET r == AddJob(store, Head(ids))
       IN IF r.raised THEN r ELSE SetupScheduledTasks(r.jobs, Tail(ids))

\* ------------------------------------------------------- executions in flight
One(r) == SetToBag({ r })

\* Whether an execution of f is in progress (its coroutine has started),
\* and how many are.
InProgress(f) == \E r \in BagToSet(runs) : r.func = f /\ r.pc >= 1

NumInProgress(f) ==
  BagCardinality([ r \in { x \in BagToSet(runs) : x.func = f /\ x.pc >= 1 }
                     |-> CopiesIn(r, runs) ])

NumManual ==
  BagCardinality([ r \in { x \in BagToSet(runs) : x.origin = "manual" } |-> CopiesIn(r, runs) ])

\* The name run_task knows coroutine f by.
NameOfFunc(f) == CHOOSE n \in TaskMethodNames : TaskMethods(n) = f

\* The health fields after an execution of f under env.
HealthEffects(f, env) ==
  IF f = "_health_check_task"
    THEN /\ health_status' = HealthStatusAfter(health_status, env.probe, RunFunc(f, env))
         /\ last_health_check' = LastCheckAfter(last_health_check, env.probe, now)
    ELSE UNCHANGED << health_status, last_health_check >>

\* run_task's response once the awaited coroutine is over: its except
\* clause turns an escaped error into a 500.
ResponseCode(out) == IF out.returned THEN 200 ELSE 500

\* get_task_status(): active_tasks counts the records of self.tasks whose
\* status is RUNNING.
GetTaskStatus ==
  [ scheduler_running |-> running,
    jobs_count |-> Len(jobs),
    last_health_check |-> last_health_check,
    health_status |-> health_status,
    active_tasks |-> Cardinality({ t \in tasks : t.status = "running" }) ]

\* The process is up and start() is in its loop.  Once start() has ended,
\* main ends with it and asyncio.run closes the event loop.
Serving == loop.pc = "sleeping"

\* asyncio.run cancels the tasks still pending when main ends; the
\* executor's done-callbacks release their instances.
NoInstances == [ id \in JobIdSet |-> 0 ]

\* ------------------------------------------------------------------ actions
\* start(): _setup_scheduled_tasks adds the five jobs, scheduler.start()
\* moves them into the store with their first run times, and the loop goes
\* to sleep for its first 60 seconds.
Start ==
  /\ loop.pc = "idle"
  /\ ~running
  /\ LET nr == [ id \in JobIdSet |-> NextFireTime(id, NoTime, now) ]
     IN /\ nextRun' = nr
        /\ jobs' = GetJobs(TRUE, JobIds, nr)
  /\ running' = TRUE
  /\ loop' = [ pc |-> "sleeping", wake |-> now + LoopSleepMinutes ]
  /\ life' = [ life EXCEPT !.starts = @ + 1 ]
  /\ UNCHANGED << now, elapsed, lastFired, instances, runs, tasks, health_status,
                  last_health_check, monitor >>

\* start() called once more while the scheduler runs: the add_job calls of
\* _setup_scheduled_tasks go to the store at once, the first that raises
\* ends start() before scheduler.start() and before the loop.
StartAgain ==
  /\ Serving
  /\ running
  /\ life.starts < MaxStarts
  /\ LET r == SetupScheduledTasks(jobs, JobIds)
     IN /\ jobs' = r.jobs
        /\ life' = [ life EXCEPT !.starts = @ + 1, !.conflict = r.raised ]
  /\ UNCHANGED << now, elapsed, running, nextRun, lastFired, instances, runs, tasks,
                  health_status, last_health_check, loop, monitor >>

Due(id) == running /\ nextRun[id] # NoTime /\ nextRun[id] <= now

\* executor.submit_job for one due job, then the job's next run time.
\* A job already at max_instances is skipped; its schedule moves on.
ProcessJob(st, id) ==
  LET busy == st.instances[id] >= max_instances
  IN [ instances |-> IF busy THEN st.instances
                     ELSE [ st.instances EXCEPT ![id] = @ + 1 ],
       runs |-> IF busy THEN st.runs
                ELSE st.runs (+) One([ func |-> JobFunc(id), origin |-> "scheduler", pc |-> 0 ]),
       lastFired |-> IF busy THEN st.lastFired
                     ELSE [ st.lastFired EXCEPT ![id] = st.nextRun[id] ],
       nextRun |-> [ st.nextRun EXCEPT ![id] = NextFireTime(id, st.nextRun[id], now) ] ]

RECURSIVE ProcessJobs(_, _)
ProcessJobs(st, due) ==
  IF due = << >> THEN st ELSE ProcessJobs(ProcessJob(st, Head(due)), Tail(due))

\* The scheduler's wakeup (_process_jobs): every due job, in store order.
SchedulerWakeup ==
  /\ Serving
  /\ \E id \in JobIdSet : Due(id)
  /\ LET due == SelectSeq(jobs, LAMBDA id : Due(id))
         st == ProcessJobs([ instances |-> instances, runs |-> runs, lastFired |-> lastFired,
                             nextRun |-> nextRun ], due)
     IN /\ instances' = st.instances
        /\ runs' = st.runs
        /\ lastFired' = st.lastFired
        /\ nextRun' = st.nextRun
        /\ jobs' = GetJobs(TRUE, JobIds, st.nextRun)
  /\ UNCHANGED << now, elapsed, running, tasks, health_status, last_health_check, loop,
                  monitor, life >>

\* An execution in flight runs on to its next asyncio.sleep: a task the
\* scheduler created starts, or a sleeping cleanup wakes for its next step.
RunAdvance(r) ==
  /\ Serving
  /\ r \in BagToSet(runs)
  /\ Suspends(r.func)
  /\ r.pc < CleanupActions
  /\ runs' = (runs (-) One(r)) (+) One([ r EXCEPT !.pc = @ + 1 ])
  /\ UNCHANGED << now, elapsed, running, jobs, nextRun, lastFired, instances, tasks,
                  health_status, last_health_check, loop, monitor, life >>

\* An execution in flight comes to its end: its body runs through or raises
\* into the except clause.  The executor releases a scheduler run's
\* instance (it catches whatever the job raises).
RunFinish(r, env) ==
  /\ Serving
  /\ r \in BagToSet(runs)
  /\ Suspends(r.func) => (r.pc = CleanupActions \/ (env.fails /\ r.pc > 0))
  /\ ~Suspends(r.func) => r.pc = 0
  /\ runs' = runs (-) One(r)
  /\ instances' = IF r.origin = "scheduler"
                    THEN [ instances EXCEPT ![JobOfFunc(r.func)] = @ - 1 ]
                    ELSE instances
  /\ HealthEffects(r.func, env)
  /\ UNCHANGED << now, elapsed, running, jobs, nextRun, lastFired, tasks, loop, monitor, life >>

\* POST /run/{task_name} with a name run_task does not know: 400.
RunTaskUnknown(name) ==
  /\ Serving
  /\ running
  /\ name \notin TaskMethodNames
  /\ UNCHANGED prog

\* POST /run/{task_name} for a coroutine that never suspends: run_task
\* awaits it and answers, all in one turn of the event loop.
RunTaskInline(name, env) ==
  /\ Serving
  /\ running
  /\ name \in TaskMethodNames
  /\ ~Suspends(TaskMethods(name))
  /\ HealthEffects(TaskMethods(name), env)
  /\ UNCHANGED << now, elapsed, running, jobs, nextRun, lastFired, instances, runs, tasks,
                  loop, monitor, life >>

\* POST /run/{task_name} for the cleanup: run_task starts the coroutine,
\* which does its first step and suspends in asyncio.sleep.
RunTaskSuspending(name) ==
  /\ Serving
  /\ running
  /\ name \in TaskMethodNames
  /\ Suspends(TaskMethods(name))
  /\ NumManual < MaxManual
  /\ runs' = runs (+) One([ func |-> TaskMethods(name), origin |-> "manual", pc |-> 1 ])
  /\ UNCHANGED << now, elapsed, running, jobs, nextRun, lastFired, instances, tasks,
                  health_status, last_health_check, loop, monitor, life >>

\* GET /health: the handler builds web_request.Request from one dict, where
\* the constructor takes the message, payload, protocol, writer, task and
\* loop.  The call raises TypeError before run_task is reached, and the
\* server answers the escaped error with 500.
HealthCheckHandler ==
  /\ Serving
  /\ running
  /\ UNCHANGED prog

\* One iteration of start()'s loop after its sleep(60): _run_health_check
\* awaits _health_check_task when the check is overdue.  An error that
\* escapes ends start(): the loop catches KeyboardInterrupt only, main
\* passes the error on and the process ends with its runs cancelled.
SupervisoryIteration(env) ==
  /\ loop.pc = "sleeping"
  /\ loop.wake <= now
  /\ IF HealthCheckOverdue(last_health_check, now)
       THEN /\ HealthEffects("_health_check_task", env)
            /\ monitor' = [ forced |-> 1, hadCheck |-> last_health_check # NoTime ]
            /\ IF RunFunc("_health_check_task", env).returned
                 THEN /\ loop' = [ pc |-> "sleeping", wake |-> now + LoopSleepMinutes ]
                      /\ UNCHANGED << runs, instances, life >>
                 ELSE /\ loop' = [ pc |-> "crashed", wake |-> NoTime ]
                      /\ runs' = EmptyBag
                      /\ instances' = NoInstances
                      /\ life' = [ life EXCEPT !.cancelled = @ + BagCardinality(runs) ]
       ELSE /\ monitor' = [ forced |-> 0, hadCheck |-> last_health_check # NoTime ]
            /\ loop' = [ pc |-> "sleeping", wake |-> now + LoopSleepMinutes ]
            /\ UNCHANGED << health_status, last_health_check, runs, instances, life >>
  /\ UNCHANGED << now, elapsed, running, jobs, nextRun, lastFired, tasks >>

\* SIGINT while start() is in its loop.  Where the interpreter raises
\* KeyboardInterrupt in the running frame and that frame is the loop's own
\* (an iteration is executing), start() catches it, calls
\* scheduler.shutdown() and returns: the executor cancels the runs it
\* submitted, the store drops its jobs, and main, which sees start() return,
\* ends without its own handler.  Otherwise (the runner cancels the main
\* task, or the interrupt finds the event loop idle) start() is left by
\* CancelledError, which neither start() nor main catches.  Either way the
\* process ends and the tasks still pending are cancelled.
Interrupt(caught) ==
  /\ Serving
  /\ caught => loop.wake <= now
  /\ loop' = [ pc |-> IF caught THEN "returned" ELSE "cancelled", wake |-> NoTime ]
  /\ IF caught
       THEN /\ running' = FALSE
            /\ jobs' = << >>
            /\ nextRun' = [ id \in JobIdSet |-> NoTime ]
       ELSE UNCHANGED << running, jobs, nextRun >>
  /\ runs' = EmptyBag
  /\ instances' = NoInstances
  /\ life' = [ life EXCEPT !.shutdowns = @ + (IF caught THEN 1 ELSE 0),
                           !.cancelled = @ + BagCardinality(runs) ]
  /\ UNCHANGED << now, elapsed, lastFired, tasks, health_status, last_health_check, monitor >>

\* SIGINT while start() is still in _setup_scheduled_tasks, where a
\* KeyboardInterrupt raised in that frame leaves start() and reaches main's
\* handler: runner.cleanup(), then scheduler.shutdown() on a scheduler that
\* was never started (SchedulerNotRunningError).
InterruptAtStartup ==
  /\ loop.pc = "idle"
  /\ ~running
  /\ loop' = [ pc |-> "interrupted", wake |-> NoTime ]
  /\ life' = [ life EXCEPT !.starts = @ + 1, !.cleanups = @ + 1 ]
  /\ UNCHANGED << now, elapsed, running, jobs, nextRun, lastFired, instances, runs, tasks,
                  health_status, last_health_check, monitor >>

\* A minute passes.  Whatever is due now is dealt with first, and every
\* execution in flight (a few one-second sleeps) is over before it ends.
Tick(limit) ==
  /\ Serving
  /\ running
  /\ elapsed < limit
  /\ runs = EmptyBag
  /\ \A id \in JobIdSet : ~Due(id)
  /\ ~(loop.pc = "sleeping" /\ loop.wake <= now)
  /\ now' = now + 1
  /\ elapsed' = elapsed + 1
  /\ UNCHANGED << running, jobs, nextRun, lastFired, instances, runs, tasks, health_status,
                  last_health_check, loop, monitor, life >>

\* The scheduler's own wait: its timer is set to the earliest next run time
\* of the store, and nothing of the scheduler moves before it.
SchedulerSleep(limit) ==
  /\ Serving
  /\ running
  /\ runs = EmptyBag
  /\ \A id \in JobIdSet : ~Due(id)
  /\ LET wakeup == CHOOSE t \in { nextRun[id] : id \in JobIdSet } :
                     \A id \in JobIdSet : t <= nextRun[id]
     IN /\ elapsed + (wakeup - now) <= limit
        /\ now' = wakeup
        /\ elapsed' = elapsed + (wakeup - now)
  /\ UNCHANGED << running, jobs, nextRun, lastFired, instances, runs, tasks, health_status,
                  last_health_check, loop, monitor, life >>

\* ---------------------------------------------------------------- observers
\* What the actions above leave in the observer variables.
ObsFinish(r, env) ==
  /\ lastRun' = RunFunc(r.func, env)
  /\ lastResp' = IF r.origin = "manual"
                   THEN [ name |-> NameOfFunc(r.func),
                          code |-> ResponseCode(RunFunc(r.func, env)) ]
                   ELSE lastResp
  /\ UNCHANGED << lastReq, requests >>

ObsUnknown(name) ==
  /\ requests < MaxRequests
  /\ requests' = requests + 1
  /\ lastReq' = [ name |-> name, busy |-> FALSE, started |-> FALSE ]
  /\ lastResp' = [ name |-> name, code |-> 400 ]
  /\ UNCHANGED lastRun

ObsInline(name, env) ==
  /\ requests < MaxRequests
  /\ requests' = requests + 1
  /\ lastReq' = [ name |-> name, busy |-> InProgress(TaskMethods(name)), started |-> TRUE ]
  /\ lastResp' = [ name |-> name, code |-> ResponseCode(RunFunc(TaskMethods(name), env)) ]
  /\ lastRun' = RunFunc(TaskMethods(name), env)

ObsSuspending(name) ==
  /\ requests < MaxRequests
  /\ requests' = requests + 1
  /\ lastReq' = [ name |-> name, busy |-> InProgress(TaskMethods(name)), started |-> TRUE ]
  /\ UNCHANGED << lastRun, lastResp >>

ObsHealthRoute ==
  /\ lastResp' = [ name |-> "/health", code |-> 500 ]
  /\ UNCHANGED << lastRun, lastReq, requests >>

ObsIteration(env) ==
  /\ lastRun' = IF HealthCheckOverdue(last_health_check, now)
                  THEN RunFunc("_health_check_task", env) ELSE lastRun
  /\ UNCHANGED << lastReq, lastResp, requests >>

KnownNames == RequestNames \cap TaskMethodNames

Runs == BagToSet(runs)

\* The manager with every request and execution observed.
Next ==
  \/ Start /\ UNCHANGED obs
  \/ SchedulerWakeup /\ UNCHANGED obs
  \/ \E r \in Runs : RunAdvance(r) /\ UNCHANGED obs
  \/ \E r \in Runs : \E env \in Envs(r.func) : RunFinish(r, env) /\ ObsFinish(r, env)
  \/ \E name \in RequestNames \ TaskMethodNames : RunTaskUnknown(name) /\ ObsUnknown(name)
  \/ \E name \in KnownNames : \E env \in Envs(TaskMethods(name)) :
       RunTaskInline(name, env) /\ ObsInline(name, env)
  \/ \E name \in KnownNames : RunTaskSuspending(name) /\ ObsSuspending(name)
  \/ HealthCheckHandler /\ ObsHealthRoute
  \/ \E env \in Envs("_health_check_task") : SupervisoryIteration(env) /\ ObsIteration(env)
  \/ Tick(MaxElapsed) /\ UNCHANGED obs

Spec == Init /\ [][Next]_vars

\* The manager over the long run, its requests and executions unobserved.
LongRunInit == InitAt(LongRunStartTimes)

LongRunNext ==
  \/ Start /\ UNCHANGED obs
  \/ SchedulerWakeup /\ UNCHANGED obs
  \/ \E r \in Runs : RunAdvance(r) /\ UNCHANGED obs
  \/ \E r \in Runs : \E env \in Envs(r.func) : RunFinish(r, env) /\ UNCHANGED obs
  \/ \E name \in KnownNames : \E env \in Envs(TaskMethods(name)) :
       RunTaskInline(name, env) /\ UNCHANGED obs
  \/ \E name \in KnownNames : RunTaskSuspending(name) /\ UNCHANGED obs
  \/ \E env \in Envs("_health_check_task") : SupervisoryIteration(env) /\ UNCHANGED obs
  \/ Tick(MaxLongRun) /\ UNCHANGED obs

LongRun == LongRunInit /\ [][LongRunNext]_vars

\* The manager's life from start() to the end of the process: further
\* start() calls and the interrupt, with the runs that are in flight then.
LifecycleNext ==
  \/ Start /\ UNCHANGED obs
  \/ StartAgain /\ UNCHANGED obs
  \/ SchedulerWakeup /\ UNCHANGED obs
  \/ \E r \in Runs : RunAdvance(r) /\ UNCHANGED obs
  \/ \E r \in Runs : \E env \in Envs(r.func) : RunFinish(r, env) /\ UNCHANGED obs
  \/ \E name \in KnownNames : RunTaskSuspending(name) /\ UNCHANGED obs
  \/ \E env \in Envs("_health_check_task") : SupervisoryIteration(env) /\ UNCHANGED obs
  \/ \E caught \in BOOLEAN : Interrupt(caught) /\ UNCHANGED obs
  \/ InterruptAtStartup /\ UNCHANGED obs
  \/ Tick(MaxLifecycle) /\ UNCHANGED obs

Lifecycle == Init /\ [][LifecycleNext]_vars

\* The scheduler alone over two weeks, every execution in the environment
\* where nothing fails.  The supervisory loop and the requests, which
\* neither read nor write the run times, are left out, and the clock goes
\* from one run time to the next.
CalendarInit == InitAt(CalendarStartTimes)

CalendarNext ==
  \/ Start /\ UNCHANGED obs
  \/ SchedulerWakeup /\ UNCHANGED obs
  \/ \E r \in Runs : RunAdvance(r) /\ UNCHANGED obs
  \/ \E r \in Runs : RunFinish(r, QuietEnv) /\ UNCHANGED obs
  \/ SchedulerSleep(MaxCalendarDays * MinutesPerDay) /\ UNCHANGED obs

Calendar == CalendarInit /\ [][CalendarNext]_vars

\* ------------------------------------------------------------------- claims
FailedAlerts(out) == SelectSeq(out.alerts, LAMBDA a : a.type \in FailedTags)

\* The POST /run request this step brings in, if it brings one.
Arrives == requests' = requests + 1

\* C1: for every job, at most one execution of its action is in progress in
\* every reachable state, whatever mix of scheduler runs, manual runs and
\* monitor-forced runs led there.
C1_AtMostOneRunPerJob == \A f \in TaskFuncs : NumInProgress(f) <= 1

\* C2: a manual invocation of a job that has a run in progress is refused:
\* the job's action is not started a second time.
C2_BusyManualRunRefused == lastReq.busy => ~lastReq.started

\* C3: a manual invocation with a name that is no registered job id is
\* answered 400, starts no action and leaves the health fields, the
\* executions in flight and the record of the last execution as they were.
C3_UnregisteredNameRejected ==
  [][ (Arrives /\ lastReq'.name \notin JobIdSet)
        => /\ lastResp' = [ name |-> lastReq'.name, code |-> 400 ]
           /\ ~lastReq'.started
           /\ UNCHANGED << health_status, last_health_check, runs, lastRun >> ]_vars

\* C4: an execution of job J's action that raised an error e and whose
\* failure alert went out emitted exactly one alert of type "<J's id>_failed",
\* with message e; an execution that raised nothing emitted no "_failed"
\* alert.
C4_FailedRunAlertsById ==
  lastRun.func \in TaskFuncs =>
    IF lastRun.error = NoError
      THEN FailedAlerts(lastRun) = << >>
      ELSE lastRun.returned =>
             FailedAlerts(lastRun) =
               << [ type |-> FailedTag(JobOfFunc(lastRun.func)), message |-> lastRun.error ] >>

\* C5: no error raised inside a job's action escapes it: every execution
\* returns normally to its caller, and the supervisory loop goes on.
C5_NoErrorEscapesAction == lastRun.returned /\ loop.pc # "crashed"

\* C6: _send_alert never raises to its caller.
C6_SendAlertNeverRaises == ~lastRun.sendRaised

\* C7: when only the delivery of a threshold alert failed, the run is not
\* treated as failed: no "_failed" alert is emitted for it and the health
\* check's health_status stays the status the probe reported.
C7_DeliveryFailureIsNotJobFailure ==
  lastRun.cause = "alert" =>
    /\ FailedAlerts(lastRun) = << >>
    /\ lastRun.func = "_health_check_task" => health_status = lastRun.reported

\* C8: every iteration of the supervisory loop invokes the health check
\* exactly once when no check has completed within the last ten minutes (or
\* none ever has), and not at all when one has.
C8_MonitorForcesWhenStale ==
  [][ (loop.pc = "sleeping" /\ loop' # loop)
        => monitor'.forced =
             (IF last_health_check = NoTime \/ now - last_health_check > StalenessMinutes
                THEN 1 ELSE 0) ]_vars

\* C8 witness: an iteration forced the check although one had completed
\* before: that completion was more than ten minutes old.
C8_ForcedAfterStaleCompletion == monitor.forced = 1 /\ monitor.hadCheck

\* C9: a dispatch attempt, by request or by the scheduler, for a job with a
\* run in progress changes nothing: no run is created and the job's schedule
\* stays where it was.
C9_BusyDispatchChangesNothing ==
  [][ \A f \in TaskFuncs :
        ( /\ InProgress(f)
          /\ \/ Arrives /\ lastReq'.name \in TaskMethodNames /\ TaskMethods(lastReq'.name) = f
             \/ Due(JobOfFunc(f)) /\ nextRun' # nextRun )
        => UNCHANGED << runs, nextRun, instances >> ]_vars

\* C10: list_scheduled_jobs returns the registered jobs in the order of
\* their registration, before start() (none yet) and after.
C10_ListedInRegistrationOrder ==
  ListScheduledJobs = (IF running THEN JobIds ELSE << >>)

\* The executions in progress, over all the actions.
NumExecuting ==
  BagCardinality([ r \in { x \in BagToSet(runs) : x.pc >= 1 } |-> CopiesIn(r, runs) ])

\* C11: the active_tasks figure of get_task_status equals the number of job
\* actions executing; so it is at least 1 while a scheduled or manual run is
\* in progress.
C11_ActiveTasksCountsExecutions == GetTaskStatus.active_tasks = NumExecuting

\* C12: a manual invocation of a registered job that is not busy reports
\* the outcome of the run it made: the caller is told 200 "completed
\* successfully" exactly when the action did not fail.
C12_ManualRunReportsOutcome ==
  [][ (Arrives /\ lastReq'.name \in JobIdSet /\ lastReq'.started /\ ~lastReq'.busy)
        => (lastResp'.code = 200 <=> lastRun'.error = NoError) ]_vars

\* C13: the names the manual-run endpoint accepts are the registered job
\* ids: a request is taken up exactly when its name is a registered id.
C13_AcceptedNamesAreJobIds ==
  lastReq.name # "none" => (lastReq.started <=> lastReq.name \in JobIdSet)

\* C14: a start() call after the first fails on the id that already exists
\* and leaves the registry as it was: the same five jobs, no id twice.
C14_SecondStartAddsNoJob ==
  [][ (life.starts >= 1 /\ life'.starts > life.starts)
        => /\ life'.conflict
           /\ jobs' = jobs
           /\ Len(jobs') = Len(JobIds)
           /\ \A i, j \in 1..Len(jobs') : jobs'[i] = jobs'[j] => i = j ]_vars

\* C14 witness: start() was called a second time on the running scheduler
\* and raised.
C14_StartedTwice == life.starts = 2 /\ life.conflict /\ running

\* C15: the interval job health_check is due exactly when it has never
\* fired or five minutes have passed since it fired last; so it is due as
\* soon as the scheduler runs.
C15_IntervalDueRule ==
  running =>
    ( Due("health_check")
        <=> ( lastFired["health_check"] = NoTime
              \/ now - lastFired["health_check"] >= IntervalMinutes ) )

\* The instants the calendar jobs are pinned to: Sunday 03:00 for
\* backup_verify, 02:00, 01:00 and 09:00 of any day for the other three.
PinnedInstant(id, t) ==
  CASE id = "backup_verify" -> DayOfWeek(t) = 6 /\ HourOf(t) = 3 /\ MinuteOf(t) = 0
    [] id = "db_cleanup" -> HourOf(t) = 2 /\ MinuteOf(t) = 0
    [] id = "performance_analytics" -> HourOf(t) = 1 /\ MinuteOf(t) = 0
    [] id = "cost_monitoring" -> HourOf(t) = 9 /\ MinuteOf(t) = 0

\* C16: a calendar job fires only at an instant that satisfies all of its
\* pinned fields, each firing is strictly after the one before, and no
\* calendar job fires twice on one day.
C16_CalendarJobsFireWhenPinned ==
  [][ \A id \in JobIdSet \ { "health_check" } :
        lastFired'[id] # lastFired[id]
          => /\ lastFired'[id] = now
             /\ PinnedInstant(id, lastFired'[id])
             /\ lastFired'[id] > lastFired[id]
             /\ lastFired[id] # NoTime
                  => lastFired'[id] \div MinutesPerDay > lastFired[id] \div MinutesPerDay ]_vars

\* C16 witness: backup_verify has fired on the second Sunday after start(),
\* and the daily jobs on that day before it.
C16_FiredOnSecondSunday ==
  /\ lastFired["backup_verify"] - (now - elapsed) > MinutesPerWeek
  /\ lastFired["db_cleanup"] = lastFired["backup_verify"] - 60
  /\ lastFired["performance_analytics"] = lastFired["backup_verify"] - 120

\* A step in which _health_check_task executes: awaited by run_task, forced
\* by the supervisory loop, or as the task the scheduler created.
HealthCheckExecutes ==
  \/ Arrives /\ lastReq'.name = "health_check"
  \/ loop.pc = "sleeping" /\ loop' # loop /\ monitor'.forced = 1
  \/ \E r \in Runs : r.func = "_health_check_task" /\ runs' = runs (-) One(r)

\* C17: an executing health check does not hold up the scheduler: a job that
\* is due while the check executes is dispatched before the check is over.
C17_DueJobsDispatchedDuringCheck ==
  [][ HealthCheckExecutes
        => \A id \in JobIdSet : Due(id) => nextRun'[id] # nextRun[id] ]_vars

\* C18: once an interrupt has ended start()'s loop, the scheduler has been
\* shut down exactly once, the web server's runner has been cleaned up, and
\* no run that was in flight has been cut off.
C18_OrderlyShutdown ==
  loop.pc \in { "returned", "cancelled" }
    => life.shutdowns = 1 /\ life.cleanups = 1 /\ life.cancelled = 0

\* C19: get_task_status reports the degraded or unhealthy status of a health
\* check only if that run's health_degraded or health_check_failed alert
\* has been emitted.
C19_AlertBeforeStatusVisible ==
  ( /\ Serving
    /\ lastRun.func = "_health_check_task"
    /\ GetTaskStatus.health_status \in { "degraded", "unhealthy" } )
  => \E i \in 1..Len(lastRun.alerts) :
       lastRun.alerts[i].type \in { "health_degraded", "health_check_failed" }

\* C20: GET /health executes the health check once, as POST
\* /run/health_check does, and answers with that run's response.
C20_HealthRouteRunsCheck ==
  [][ (lastResp'.name = "/health" /\ lastResp' # lastResp)
        => /\ lastRun' # lastRun
           /\ lastRun'.func = "_health_check_task"
           /\ lastResp'.code = ResponseCode(lastRun') ]_vars

\* The probe outcome behind a finished health check: each outcome leaves
\* its own reported status or error message in the record.
ProbeOf(out) ==
  CHOOSE p \in ProbeOutcomes :
    \E env \in Envs("_health_check_task") :
      env.probe = p /\ RunFunc("_health_check_task", env) = out

\* The status the body of a 200 answer reports, "unknown" when it has none.
StatusOfBody(p) == IF p.status \in { "absent", "invalid" } THEN "unknown" ELSE p.status

AlertsOfType(out, type) == SelectSeq(out.alerts, LAMBDA a : a.type = type)

\* C21: after a health check whose probe returned 200, health_status is the
\* reported status and last_health_check is the current time; after one
\* whose probe returned another code or raised, health_status is
\* "unhealthy" and last_health_check is what it was.
C21_HealthStateFollowsProbe ==
  [][ HealthCheckExecutes
        => LET p == ProbeOf(lastRun')
           IN IF p.code = 200
                THEN health_status' = StatusOfBody(p) /\ last_health_check' = now
                ELSE health_status' = "unhealthy" /\ last_health_check' = last_health_check ]_vars

\* C22: a health check whose probe returned 200 emitted exactly one
\* health_degraded alert, and nothing else, when the reported status is
\* "degraded" or "unhealthy", and no alert for any other status.
C22_OneDegradedAlertPerRun ==
  (lastRun.func = "_health_check_task" /\ ProbeOf(lastRun).code = 200)
    => IF StatusOfBody(ProbeOf(lastRun)) \in { "degraded", "unhealthy" }
         THEN /\ Len(AlertsOfType(lastRun, "health_degraded")) = 1
              /\ AlertsOfType(lastRun, "health_check_failed") = << >>
         ELSE lastRun.alerts = << >>

====
